---- MODULE Spec2Model ----
(***************************************************************************)
(* Model of key_system_bot.py: a Discord bot that keeps its key records in *)
(* one remote text document (keys.txt of a private gist).  Every handler   *)
(* reads the whole document (fetch_entries), changes its private copy and  *)
(* replaces the whole document (push_entries).  Handlers are coroutines of *)
(* one event loop: code between two awaits runs without interruption, and  *)
(* another handler may run at every await.                                 *)
(*                                                                         *)
(* Strings are sequences of one-character strings; the document is the     *)
(* character sequence held by the gist.                                    *)
(***************************************************************************)
EXTENDS Integers, Sequences, FiniteSets, TLC

\* ------------------------------------------------------------------ bounds
\* Number of handler invocations (discord Interactions) in one behaviour.
MaxOps == 3
\* Number of lines of a keys.txt written by hand.
MaxLines == 3

\* ------------------------------------------------------- program constants
\* generate_key(length = 12)
KeyLength == 12
\* OWNER_ID = int(os.getenv('OWNER_ID', '0')): no owner is configured.
OWNER_ID == 0

\* string.ascii_uppercase + string.digits
KeyAlphabet ==
  << "A","B","C","D","E","F","G","H","I","J","K","L","M",
     "N","O","P","Q","R","S","T","U","V","W","X","Y","Z",
     "0","1","2","3","4","5","6","7","8","9" >>

\* ------------------------------------------------------------ environment
Interactions == 1..MaxOps
\* Discord users (their ids): 1 holds the role named ADMIN_ROLE_NAME, 2 is an
\* ordinary member.
Users == {1, 2}
KeyManagers == {1}
\* The role id of the panel (KeyGenView.role_id), and the roles the guild has:
\* role 12, of an earlier panel, has been deleted.
PanelRoles == {5}
GuildRoles == {5}
\* Readings of datetime.utcnow().
Times == {1}

\* Python None, distinct from every string.
None == << "None" >>

\* ---------------------------------------------------------------- strings
Whitespace == {" ", "\t"}
Digits == <<"0","1","2","3","4","5","6","7","8","9">>
DigitSet == {Digits[i] : i \in 1..10}
DigitVal(c) == (CHOOSE i \in 1..10 : Digits[i] = c) - 1

\* str.strip()
RECURSIVE LStrip(_)
LStrip(s) == IF s # <<>> /\ Head(s) \in Whitespace THEN LStrip(Tail(s)) ELSE s
RECURSIVE RStrip(_)
RStrip(s) ==
  IF s # <<>> /\ s[Len(s)] \in Whitespace THEN RStrip(SubSeq(s, 1, Len(s) - 1)) ELSE s
Strip(s) == RStrip(LStrip(s))

\* Index of the first occurrence of character c in s, 0 when there is none.
FirstIndex(s, c) ==
  LET at == {i \in 1..Len(s) : s[i] = c} IN
  IF at = {} THEN 0 ELSE CHOOSE i \in at : \A j \in at : i <= j

\* str.split(c, n): at most n splits; n = -1 splits at every c.
RECURSIVE Split(_, _, _)
Split(s, c, n) ==
  LET i == FirstIndex(s, c) IN
  IF n = 0 \/ i = 0 THEN << s >>
  ELSE << SubSeq(s, 1, i - 1) >> \o Split(SubSeq(s, i + 1, Len(s)), c, n - 1)

\* str.splitlines(): no line for the empty string, none after a final newline.
SplitLines(content) ==
  IF content = <<>> THEN <<>>
  ELSE LET parts == Split(content, "\n", -1) IN
       IF parts[Len(parts)] = <<>> THEN SubSeq(parts, 1, Len(parts) - 1) ELSE parts

\* "\n".join(lines)
RECURSIVE JoinLines(_)
JoinLines(lines) ==
  IF lines = <<>> THEN <<>>
  ELSE IF Len(lines) = 1 THEN lines[1]
  ELSE lines[1] \o << "\n" >> \o JoinLines(Tail(lines))

\* int(s): surrounding whitespace is dropped, then decimal digits are read;
\* anything else raises ValueError.
ValueError == -1
RECURSIVE DigitsValue(_)
DigitsValue(s) ==
  IF s = <<>> THEN 0
  ELSE 10 * DigitsValue(SubSeq(s, 1, Len(s) - 1)) + DigitVal(s[Len(s)])
PyInt(s) ==
  LET t == Strip(s) IN
  IF t = <<>> \/ \E i \in 1..Len(t) : t[i] \notin DigitSet THEN ValueError
  ELSE DigitsValue(t)

\* str(n) for n >= 0
RECURSIVE PyStr(_)
PyStr(n) ==
  IF n < 10 THEN << Digits[n + 1] >>
  ELSE PyStr(n \div 10) \o << Digits[(n % 10) + 1] >>

\* datetime.isoformat(): a string with no comma, newline or blank in it.
IsoFormat(t) == << "T" >> \o PyStr(t)

\* x or None / x or ''
OrNone(s) == IF s = <<>> THEN None ELSE s
OrEmpty(x) == IF x = None THEN <<>> ELSE x

\* ------------------------------------------------------------------- keys
\* The keys of the model: words of KeyLength symbols of the alphabet that
\* differ in their last symbol.
Key(n) == [j \in 1..KeyLength |-> IF j = KeyLength THEN KeyAlphabet[n] ELSE "K"]
Keys == {Key(1), Key(2)}

\* generate_key(): any word of the key space.
generate_key == Keys

is_admin(member) == (OWNER_ID # 0 /\ member = OWNER_ID) \/ member \in KeyManagers

\* ------------------------------------------------------------ the document
Entry(k, r, by, at) == [key |-> k, role_id |-> r, redeemed_by |-> by, redeemed_at |-> at]

\* One line of keys.txt: the entry it holds, or nothing when it is skipped.
ParseLine(raw) ==
  LET line == Strip(raw) IN
  IF line = <<>> \/ Head(line) = "#" THEN <<>>
  ELSE LET split == Split(line, ",", 3)
           parts == split \o [j \in 1..(4 - Len(split)) |-> <<>>]
           role_id == PyInt(parts[2])
       IN IF role_id = ValueError THEN <<>>
          ELSE << Entry(parts[1], role_id, OrNone(parts[3]), OrNone(parts[4])) >>

\* A loop that ends at the first skipped line (break for continue).
RECURSIVE ParseLines_break(_)
ParseLines_break(ls) ==
  IF ls = <<>> \/ ParseLine(Head(ls)) = <<>> THEN <<>>
  ELSE ParseLine(Head(ls)) \o ParseLines_break(Tail(ls))

\* fetch_entries(): the entries of the lines that are not skipped, in document
\* order.
RECURSIVE ParseLines(_)
ParseLines(lines) ==
  IF lines = <<>> THEN <<>> ELSE ParseLine(Head(lines)) \o ParseLines(Tail(lines))
fetch_entries(content) == ParseLines(SplitLines(content))

\* A line written without `or ''`: None is written as the word None.
FormatLine_none_as_word(en) ==
  LET word(x) == IF x = None THEN << "N", "o", "n", "e" >> ELSE x IN
  en.key \o << "," >> \o PyStr(en.role_id) \o << "," >>
    \o word(en.redeemed_by) \o << "," >> \o word(en.redeemed_at)

FormatLine(en) ==
  en.key \o << "," >> \o PyStr(en.role_id) \o << "," >>
    \o OrEmpty(en.redeemed_by) \o << "," >> \o OrEmpty(en.redeemed_at)

\* push_entries(): the content written for a list of entries.
push_entries(entries) == JoinLines([j \in 1..Len(entries) |-> FormatLine(entries[j])])

\* A gist.edit that has written the first line when it raises.
gist_edit_partial(content, new, ok) ==
  IF ok THEN new
  ELSE LET lines == SplitLines(new) IN IF lines = <<>> THEN <<>> ELSE lines[1]

\* gist.edit(): one request that replaces the content or raises.
gist_edit(content, new, ok) == IF ok THEN new ELSE content

\* gist      the content of keys.txt in the gist
\* pc        where the handler of each interaction stands
\* key, user, entries, e
\*           the locals of a redeem handler suspended at add_roles: its key
\*           argument, interaction.user.id, the fetched list and the index of
\*           the loop variable e in it
\* response  the last message sent with interaction.response.send_message
\* issued    (history) the keys whose issuance was written to the document
\* successes (history) per key, how many redeem invocations answered "redeemed"
\* grants    (history) per key, how many add_roles calls for it succeeded
\* pushFailed (history) whether some gist.edit has raised
\* responses (history) per interaction, how many messages were sent with
\*           interaction.response.send_message
VARIABLES gist, pc, key, user, entries, e, response, issued, successes, grants,
          pushFailed, responses

\* The functions of the program are also exercised on their own, on inputs the
\* handlers above do not produce:
\* lines     the lines of a keys.txt written by hand
\* loaded    what fetch_entries returns for it
\* secret    HMAC_SECRET
\* license   the content of license.lic, and whether it was changed after it
\*           was issued
VARIABLES lines, loaded, secret, license
functions == << lines, loaded, secret, license >>

vars ==
  << gist, pc, key, user, entries, e, response, issued, successes, grants, pushFailed,
     responses, functions >>

\* Nothing loaded, no license built.
NotLoaded == [ran |-> FALSE, entries |-> <<>>]
NoLicense == [file |-> <<>>, tampered |-> FALSE]

\* Documents left by earlier runs of the bot: no key yet, or both keys issued
\* and not redeemed, the first one with role 5 or with role 12.
InitEntries ==
  { <<>>,
    << Entry(Key(1), 5, None, None), Entry(Key(2), 5, None, None) >>,
    << Entry(Key(1), 12, None, None), Entry(Key(2), 5, None, None) >> }

KeysOf(es) == {es[j].key : j \in 1..Len(es)}

Init ==
  /\ gist \in {push_entries(es) : es \in InitEntries}
  /\ issued = KeysOf(fetch_entries(gist))
  /\ pc = [i \in Interactions |-> "idle"]
  /\ key = [i \in Interactions |-> <<>>]
  /\ user = [i \in Interactions |-> 0]
  /\ entries = [i \in Interactions |-> <<>>]
  /\ e = [i \in Interactions |-> 0]
  /\ response = "none"
  /\ successes = [k \in Keys |-> 0]
  /\ grants = [k \in Keys |-> 0]
  /\ pushFailed = FALSE
  /\ responses = [i \in Interactions |-> 0]
  /\ lines = <<>>
  /\ loaded = NotLoaded
  /\ secret = <<>>
  /\ license = NoLicense

\* Interaction i arrives: the interactions are numbered in order of arrival.
Arrives(i) == pc[i] = "idle" /\ \A j \in 1..(i - 1) : pc[j] # "idle"

\* await interaction.response.send_message(msg); return
Respond(i, msg) ==
  /\ response' = msg
  /\ responses' = [responses EXCEPT ![i] = @ + 1]
  /\ pc' = [pc EXCEPT ![i] = "done"]

\* The handler is suspended at an await.
Await(i, where) ==
  /\ response' = response
  /\ responses' = responses
  /\ pc' = [pc EXCEPT ![i] = where]

\* A generate_button that builds the list anew instead of appending to the
\* fetched one.
generate_button_fresh_list(i, u, role_id, k, fetchOk, pushOk) ==
  /\ Arrives(i)
  /\ fetchOk \/ pushOk
  /\ IF ~is_admin(u)
     THEN /\ Respond(i, "not_authorized")
          /\ UNCHANGED << gist, issued, pushFailed >>
     ELSE IF ~fetchOk
     THEN /\ Respond(i, "error_fetching")
          /\ UNCHANGED << gist, issued, pushFailed >>
     ELSE LET new == << Entry(k, role_id, None, None) >> IN
          /\ gist' = gist_edit(gist, push_entries(new), pushOk)
          /\ pushFailed' = (pushFailed \/ ~pushOk)
          /\ IF pushOk
             THEN /\ issued' = issued \cup {k}
                  /\ Await(i, "generate_await_dm")
             ELSE /\ issued' = issued
                  /\ Respond(i, "error_updating")
  /\ UNCHANGED << key, user, entries, e, successes, grants, functions >>

\* KeyGenView.generate_button, up to the await on the DM: user u clicks the
\* button of the panel of role_id, generate_key returns k.
generate_button(i, u, role_id, k, fetchOk, pushOk) ==
  /\ Arrives(i)
  \* gist.edit is reached only after a fetch that succeeded
  /\ fetchOk \/ pushOk
  /\ IF ~is_admin(u)
     THEN /\ Respond(i, "not_authorized")
          /\ UNCHANGED << gist, issued, pushFailed >>
     ELSE IF ~fetchOk
     THEN /\ Respond(i, "error_fetching")
          /\ UNCHANGED << gist, issued, pushFailed >>
     ELSE LET new == Append(fetch_entries(gist), Entry(k, role_id, None, None)) IN
          /\ gist' = gist_edit(gist, push_entries(new), pushOk)
          /\ pushFailed' = (pushFailed \/ ~pushOk)
          /\ IF pushOk
             THEN /\ issued' = issued \cup {k}
                  /\ Await(i, "generate_await_dm")
             ELSE /\ issued' = issued
                  /\ Respond(i, "error_updating")
  /\ UNCHANGED << key, user, entries, e, successes, grants, functions >>

\* A generate_button that takes the key back out of the document when the DM
\* fails.
generate_button_dm_rollback(i, msg) ==
  /\ pc[i] = "generate_await_dm"
  /\ msg \in {"license_sent", "dm_forbidden", "dm_failed"}
  /\ Respond(i, msg)
  /\ gist' = IF msg = "license_sent" THEN gist
             ELSE LET es == fetch_entries(gist) IN
                  gist_edit(gist, push_entries(SubSeq(es, 1, Len(es) - 1)), TRUE)
  /\ UNCHANGED << key, user, entries, e, issued, successes, grants, pushFailed, functions >>

\* A generate_button that swallows an unexpected failure of the DM and returns
\* without an answer.
generate_button_dm_silent(i, msg) ==
  /\ pc[i] = "generate_await_dm"
  /\ msg \in {"license_sent", "dm_forbidden", "dm_failed"}
  /\ IF msg = "dm_failed"
     THEN /\ pc' = [pc EXCEPT ![i] = "done"]
          /\ UNCHANGED << response, responses >>
     ELSE Respond(i, msg)
  /\ UNCHANGED << gist, key, user, entries, e, issued, successes, grants, pushFailed, functions >>

\* generate_button after `await interaction.user.send(...)`.
generate_button_dm(i, msg) ==
  /\ pc[i] = "generate_await_dm"
  /\ msg \in {"license_sent", "dm_forbidden", "dm_failed"}
  /\ Respond(i, msg)
  /\ UNCHANGED << gist, key, user, entries, e, issued, successes, grants, pushFailed, functions >>

\* listkeys, up to the await on the DM.
listkeys(i, u, fetchOk) ==
  /\ Arrives(i)
  /\ IF ~is_admin(u) THEN Respond(i, "not_authorized")
     ELSE IF ~fetchOk THEN Respond(i, "error_fetching")
     ELSE Await(i, "listkeys_await_dm")
  /\ UNCHANGED << gist, key, user, entries, e, issued, successes, grants, pushFailed, functions >>

\* listkeys after `await interaction.user.send(...)`.
listkeys_dm(i, msg) ==
  /\ pc[i] = "listkeys_await_dm"
  /\ msg \in {"list_sent", "dm_forbidden", "dm_failed"}
  /\ Respond(i, msg)
  /\ UNCHANGED << gist, key, user, entries, e, issued, successes, grants, pushFailed, functions >>

\* The loop of redeem: the first entry with the key decides.
FindKey(es, k) ==
  IF \E j \in 1..Len(es) : es[j].key = k
  THEN CHOOSE j \in 1..Len(es) : es[j].key = k /\ \A h \in 1..(j - 1) : es[h].key # k
  ELSE 0

\* A redeem that answers "invalid key" for a redeemed key too.
redeem_lookup_conflated(es, k) ==
  LET j == FindKey(es, k) IN
  IF j = 0 \/ es[j].redeemed_by # None THEN [outcome |-> "invalid_key", e |-> 0]
  ELSE IF es[j].role_id \notin GuildRoles THEN [outcome |-> "role_not_found", e |-> j]
  ELSE [outcome |-> "pending", e |-> j]

\* redeem from the loop to the await on add_roles: what it answers, or that
\* it goes on ("pending") with entry e.
redeem_lookup(es, k) ==
  LET j == FindKey(es, k) IN
  IF j = 0 THEN [outcome |-> "invalid_key", e |-> 0]
  ELSE IF es[j].redeemed_by # None THEN [outcome |-> "already_redeemed", e |-> j]
  ELSE IF es[j].role_id \notin GuildRoles THEN [outcome |-> "role_not_found", e |-> j]
  ELSE [outcome |-> "pending", e |-> j]

\* A redeem that marks and pushes the entry before it looks at the outcome of
\* add_roles.
redeem_commit_first(content, es, j, uid, now, grantOk, pushOk) ==
  LET marked == [es EXCEPT ![j].redeemed_by = PyStr(uid),
                           ![j].redeemed_at = IsoFormat(now)]
      written == gist_edit(content, push_entries(marked), pushOk)
  IN IF ~grantOk THEN [gist |-> written, outcome |-> "assign_failed"]
     ELSE [gist |-> written,
           outcome |-> IF pushOk THEN "redeemed" ELSE "assigned_not_recorded"]

\* A redeem that marks the key as used when the grant fails.
redeem_commit_burn(content, es, j, uid, now, grantOk, pushOk) ==
  LET marked == [es EXCEPT ![j].redeemed_by = PyStr(uid),
                           ![j].redeemed_at = IsoFormat(now)]
  IN IF ~grantOk
     THEN [gist |-> gist_edit(content, push_entries(marked), TRUE),
           outcome |-> "assign_failed"]
     ELSE [gist |-> gist_edit(content, push_entries(marked), pushOk),
           outcome |-> IF pushOk THEN "redeemed" ELSE "assigned_not_recorded"]

\* A redeem that records who redeemed and not when.
redeem_commit_no_time(content, es, j, uid, now, grantOk, pushOk) ==
  IF ~grantOk THEN [gist |-> content, outcome |-> "assign_failed"]
  ELSE LET marked == [es EXCEPT ![j].redeemed_by = PyStr(uid)]
       IN [gist |-> gist_edit(content, push_entries(marked), pushOk),
           outcome |-> IF pushOk THEN "redeemed" ELSE "assigned_not_recorded"]

\* redeem after the await on add_roles: the content of the document and the
\* answer, given whether add_roles and gist.edit succeed.
redeem_commit(content, es, j, uid, now, grantOk, pushOk) ==
  IF ~grantOk THEN [gist |-> content, outcome |-> "assign_failed"]
  ELSE LET marked == [es EXCEPT ![j].redeemed_by = PyStr(uid),
                                ![j].redeemed_at = IsoFormat(now)]
       IN [gist |-> gist_edit(content, push_entries(marked), pushOk),
           outcome |-> IF pushOk THEN "redeemed" ELSE "assigned_not_recorded"]

\* redeem, up to the await on add_roles: user u redeems key k.
redeem(i, u, k, fetchOk) ==
  /\ Arrives(i)
  /\ IF ~fetchOk
     THEN /\ Respond(i, "error_fetching")
          /\ UNCHANGED << key, user, entries, e >>
     ELSE LET es == fetch_entries(gist)
              r == redeem_lookup(es, k)
          IN IF r.outcome = "pending"
             THEN /\ Await(i, "redeem_await_add_roles")
                  /\ key' = [key EXCEPT ![i] = k]
                  /\ user' = [user EXCEPT ![i] = u]
                  /\ entries' = [entries EXCEPT ![i] = es]
                  /\ e' = [e EXCEPT ![i] = r.e]
             ELSE /\ Respond(i, r.outcome)
                  /\ UNCHANGED << key, user, entries, e >>
  /\ UNCHANGED << gist, issued, successes, grants, pushFailed, functions >>

\* redeem after `await interaction.user.add_roles(role)`; the locals die with
\* the return.
redeem_assign(i, now, grantOk, pushOk) ==
  /\ pc[i] = "redeem_await_add_roles"
  \* gist.edit is reached only after add_roles succeeded
  /\ grantOk \/ pushOk
  /\ LET r == redeem_commit(gist, entries[i], e[i], user[i], now, grantOk, pushOk) IN
       /\ gist' = r.gist
       /\ Respond(i, r.outcome)
       /\ successes' = [successes EXCEPT ![key[i]] = @ + (IF r.outcome = "redeemed" THEN 1 ELSE 0)]
       /\ grants' = [grants EXCEPT ![key[i]] = @ + (IF grantOk THEN 1 ELSE 0)]
       /\ pushFailed' = (pushFailed \/ r.outcome = "assigned_not_recorded")
  /\ key' = [key EXCEPT ![i] = <<>>]
  /\ user' = [user EXCEPT ![i] = 0]
  /\ entries' = [entries EXCEPT ![i] = <<>>]
  /\ e' = [e EXCEPT ![i] = 0]
  /\ UNCHANGED << issued, functions >>

DmResults == {"license_sent", "list_sent", "dm_forbidden", "dm_failed"}

Next ==
  \E i \in Interactions :
    \/ \E u \in Users, role_id \in PanelRoles, k \in generate_key,
          fetchOk \in BOOLEAN, pushOk \in BOOLEAN :
         generate_button(i, u, role_id, k, fetchOk, pushOk)
    \/ \E msg \in DmResults : generate_button_dm(i, msg)
    \/ \E u \in Users, fetchOk \in BOOLEAN : listkeys(i, u, fetchOk)
    \/ \E msg \in DmResults : listkeys_dm(i, msg)
    \/ \E u \in Users, k \in Keys, fetchOk \in BOOLEAN : redeem(i, u, k, fetchOk)
    \/ \E now \in Times, grantOk \in BOOLEAN, pushOk \in BOOLEAN :
         redeem_assign(i, now, grantOk, pushOk)

Spec == Init /\ [][Next]_vars

\* A suspended handler is resumed: the awaited call (the DM, add_roles) returns
\* or raises, and the event loop runs the coroutine on.
Resume(i) ==
  \/ \E msg \in DmResults : generate_button_dm(i, msg)
  \/ \E msg \in DmResults : listkeys_dm(i, msg)
  \/ \E now \in Times, grantOk \in BOOLEAN, pushOk \in BOOLEAN :
       redeem_assign(i, now, grantOk, pushOk)

FairSpec == Spec /\ \A i \in Interactions : WF_vars(Resume(i))

\* ----------------------------------------------- fetch_entries on its own
\* Lines somebody may have typed into keys.txt: records with two, four and five
\* fields, with blanks around the fields, with an empty key; a blank line, a
\* comment; lines without a role, with an empty role, with a role that is no
\* number.
HandLines ==
  { << "A", ",", "5", ",", ",">>,
    << "B", ",", "7" >>,
    << " ", "A", ",", " ", "5", " ", ",", "1", ",", "T", "1", " " >>,
    << "A", ",", "5", ",", "1", ",", "T", "1", ",", "x" >>,
    << ",", "5", ",", "," >>,
    << >>,
    << " ", "\t" >>,
    << "#", "A", ",", "5", ",", "," >>,
    << "A" >>,
    << "A", ",", ",", "1", ",", "T", "1" >>,
    << "A", ",", "x", ",", "," >> }

Documents == UNION { [1..n -> HandLines] : n \in 0..MaxLines }

\* The handlers are not running.
NoHandler ==
  /\ pc = [i \in Interactions |-> "idle"]
  /\ key = [i \in Interactions |-> <<>>]
  /\ user = [i \in Interactions |-> 0]
  /\ entries = [i \in Interactions |-> <<>>]
  /\ e = [i \in Interactions |-> 0]
  /\ response = "none"
  /\ issued = {}
  /\ successes = [k \in Keys |-> 0]
  /\ grants = [k \in Keys |-> 0]
  /\ pushFailed = FALSE
  /\ responses = [i \in Interactions |-> 0]

InitLoad ==
  /\ lines \in Documents
  /\ gist = JoinLines(lines)
  /\ loaded = NotLoaded
  /\ secret = <<>>
  /\ license = NoLicense
  /\ NoHandler

\* entries, gist = fetch_entries()
Load ==
  /\ loaded = NotLoaded
  /\ loaded' = [ran |-> TRUE, entries |-> fetch_entries(gist)]
  /\ UNCHANGED << gist, pc, key, user, entries, e, response, issued, successes, grants,
                  pushFailed, responses, lines, secret, license >>

NextLoad == Load

SpecLoad == InitLoad /\ [][NextLoad]_vars

\* ------------------------------------------------- the license on its own
\* json.dumps of a str: quotes around it, quote and backslash escaped.
RECURSIVE EscapeEach(_)
EscapeEach(s) ==
  IF s = <<>> THEN <<>>
  ELSE (IF Head(s) \in {"\"", "\\"} THEN << "\\", Head(s) >> ELSE << Head(s) >>)
         \o EscapeEach(Tail(s))
JsonEscape(s) ==
  IF \A p \in 1..Len(s) : s[p] \notin {"\"", "\\"} THEN s ELSE EscapeEach(s)
JsonString(s) == << "\"" >> \o JsonEscape(s) \o << "\"" >>

\* A serialization that leaves issued_at out of the signed bytes.
Canonical_key_only(payload) ==
  << "{", "\"", "k", "e", "y", "\"", ":" >> \o JsonString(payload.key) \o << "}" >>

\* json.dumps(payload, separators=(',',':')): the compact form, the fields in
\* the order the dict was built in.
Canonical(payload) ==
  << "{", "\"", "k", "e", "y", "\"", ":" >> \o JsonString(payload.key)
    \o << ",", "\"", "i", "s", "s", "u", "e", "d", "_", "a", "t", "\"", ":" >> \o JsonString(payload.issued_at) \o << "}" >>

\* The characters of secrets and payloads, and their codes.
Charset ==
  KeyAlphabet \o << "a", "b", "c", "d", "e", "f", "g", "h", "i", "j", "k", "l", "m", "n", "o", "p", "q", "r", "s", "t", "u", "v", "w", "x", "y", "z", "_", "{", "}", "\"", ":", ",", " ", "\\" >>
HexDigits == << "0","1","2","3","4","5","6","7","8","9","a","b","c","d","e","f" >>
Code(c) == CHOOSE n \in 1..Len(Charset) : Charset[n] = c
HexOf(s) ==
  [p \in 1..(2 * Len(s)) |->
     LET n == Code(s[(p + 1) \div 2]) IN
     IF p % 2 = 1 THEN HexDigits[(n \div 16) + 1] ELSE HexDigits[(n % 16) + 1]]

\* hmac.new(secret, data, hashlib.sha256).hexdigest(), as an injective function
\* of secret and data with hexadecimal values: the codes of both, with a mark
\* between them that is the code of no character.
Hmac(sec, data) == HexOf(sec) \o << "f", "f" >> \o HexOf(data)

\* json.dumps(blob) for blob = {'payload': payload, 'signature': sig}, with the
\* default separators.
BlobJson(payload, sig) ==
  << "{", "\"", "p", "a", "y", "l", "o", "a", "d", "\"", ":", " ", "{", "\"", "k", "e", "y", "\"", ":", " " >> \o JsonString(payload.key)
    \o << ",", " ", "\"", "i", "s", "s", "u", "e", "d", "_", "a", "t", "\"", ":", " " >> \o JsonString(payload.issued_at)
    \o << "}", ",", " ", "\"", "s", "i", "g", "n", "a", "t", "u", "r", "e", "\"", ":", " " >> \o JsonString(sig) \o << "}" >>

\* license.lic for key k issued at time t.
LicenseFile(k, t, sec) ==
  LET payload == [key |-> k, issued_at |-> IsoFormat(t)]
      data == Canonical(payload)
      sig == Hmac(sec, data)
  IN BlobJson(payload, sig)

\* The string literals of a JSON text, unescaped, in order.  A quote is escaped
\* when an odd number of backslashes stands before it.
EscapedAt(text, p) ==
  IF p = 1 \/ text[p - 1] # "\\" THEN FALSE
  ELSE LET others == {q \in 1..(p - 1) : text[q] # "\\"}
           last == IF others = {} THEN 0 ELSE CHOOSE q \in others : \A r \in others : r <= q
       IN (p - 1 - last) % 2 = 1
QuoteFrom(text, p) ==
  LET qs == {q \in p..Len(text) : text[q] = "\"" /\ ~EscapedAt(text, q)} IN
  IF qs = {} THEN 0 ELSE CHOOSE q \in qs : \A r \in qs : q <= r
RECURSIVE UnescapeEach(_)
UnescapeEach(s) ==
  IF s = <<>> THEN <<>>
  ELSE IF Head(s) = "\\" /\ Len(s) > 1 THEN << s[2] >> \o UnescapeEach(SubSeq(s, 3, Len(s)))
  ELSE << Head(s) >> \o UnescapeEach(Tail(s))
JsonUnescape(s) ==
  IF \A p \in 1..Len(s) : s[p] # "\\" THEN s ELSE UnescapeEach(s)
RECURSIVE StringsFrom(_, _)
StringsFrom(text, p) ==
  LET open == QuoteFrom(text, p)
      close == IF open = 0 THEN 0 ELSE QuoteFrom(text, open + 1)
  IN IF close = 0 THEN <<>>
     ELSE << JsonUnescape(SubSeq(text, open + 1, close - 1)) >> \o StringsFrom(text, close + 1)
JsonStrings(text) == StringsFrom(text, 1)

\* The verifier: it reads payload and signature from the file, serializes the
\* payload again in the canonical form and compares the HMAC of that with the
\* signature; a file that is no license fails.
Verify(file, sec) ==
  LET toks == JsonStrings(file) IN
  /\ Len(toks) = 7
  /\ LET payload == [key |-> toks[3], issued_at |-> toks[5]] IN
       /\ BlobJson(payload, toks[7]) = file
       /\ Hmac(sec, Canonical(payload)) = toks[7]

\* The positions of the file that hold the payload's values and the signature.
ValuePositions(file) ==
  LET toks == JsonStrings(file)
      k0 == Len(<< "{", "\"", "p", "a", "y", "l", "o", "a", "d", "\"", ":", " ", "{", "\"", "k", "e", "y", "\"", ":", " " >>) + 1
      t0 == k0 + Len(toks[3]) + 1 + Len(<< ",", " ", "\"", "i", "s", "s", "u", "e", "d", "_", "a", "t", "\"", ":", " " >>) + 1
      s0 == t0 + Len(toks[5]) + 1 + Len(<< "}", ",", " ", "\"", "s", "i", "g", "n", "a", "t", "u", "r", "e", "\"", ":", " " >>) + 1
  IN IF Len(toks) # 7 THEN {}
     ELSE (k0 + 1)..(k0 + Len(toks[3])) \cup (t0 + 1)..(t0 + Len(toks[5]))
            \cup (s0 + 1)..(s0 + Len(toks[7]))

Secrets == { <<>>, << "s" >> }
TamperChars == { "X", "0", "\"" }

InitLicense ==
  /\ secret \in Secrets
  /\ license = NoLicense
  /\ lines = <<>>
  /\ gist = <<>>
  /\ loaded = NotLoaded
  /\ NoHandler

\* Lines 132-141 of generate_button: the license of key k is built at time t.
Issue(k, t) ==
  /\ license = NoLicense
  /\ license' = [file |-> LicenseFile(k, t, secret), tampered |-> FALSE]
  /\ UNCHANGED << gist, pc, key, user, entries, e, response, issued, successes, grants,
                  pushFailed, responses, lines, loaded, secret >>

\* Somebody changes character p of the file, one of the payload's values or of
\* the signature, into c.
Tamper(p, c) ==
  /\ license # NoLicense
  /\ ~license.tampered
  /\ c # license.file[p]
  /\ license' = [file |-> [license.file EXCEPT ![p] = c], tampered |-> TRUE]
  /\ UNCHANGED << gist, pc, key, user, entries, e, response, issued, successes, grants,
                  pushFailed, responses, lines, loaded, secret >>

NextLicense ==
  \/ \E k \in generate_key, t \in Times : Issue(k, t)
  \/ \E p \in ValuePositions(license.file), c \in TamperChars : Tamper(p, c)

SpecLicense == InitLicense /\ [][NextLicense]_vars

\* ------------------------------------------------------------- properties
\* The records of the stored document.
Doc == fetch_entries(gist)
HasKey(es, k) == \E j \in 1..Len(es) : es[j].key = k
IsRedeemed(es, k) == \E j \in 1..Len(es) : es[j].key = k /\ es[j].redeemed_by # None
RedeemersOf(es, k) ==
  {es[j].redeemed_by : j \in {h \in 1..Len(es) : es[h].key = k /\ es[h].redeemed_by # None}}
AllFinished == \A i \in Interactions : pc[i] \in {"idle", "done"}
\* The handler of interaction i takes its last step.
Returns(i) == pc[i] # "done" /\ pc'[i] = "done"

\* C1 (at-most-once redemption): of the redeem invocations for one key, however
\* they interleave, at most one reports success (the others are answered
\* "already redeemed").  Stated as the claim states it; the code violates it.
AtMostOnceRedemption == \A k \in Keys : successes[k] <= 1

\* C2 (remote convergence): when every handler has finished and no push has
\* failed, the document contains every issued key and shows every successfully
\* redeemed key as redeemed.  Stated as the claim states it; the code violates it.
RemoteConvergence ==
  (AllFinished /\ ~pushFailed) =>
    /\ issued \subseteq KeysOf(Doc)
    /\ \A k \in Keys : successes[k] > 0 => IsRedeemed(Doc, k)

\* C3 (key uniqueness): no two records of the stored document have the same
\* key.  Stated as the claim states it; the code violates it.
KeyUniqueness ==
  \A j \in 1..Len(Doc), h \in 1..Len(Doc) : Doc[j].key = Doc[h].key => j = h

\* C4 (redeemed is terminal): a key the document shows as redeemed is shown as
\* redeemed after every step.  Stated as the claim states it; the code violates it.
RedeemedIsTerminal ==
  [][\A k \in Keys : IsRedeemed(fetch_entries(gist), k) => IsRedeemed(fetch_entries(gist'), k)]_vars

\* C5 (records are never deleted): a key present in the document is present
\* after every step.  Stated as the claim states it; the code violates it.
RecordsNeverDeleted ==
  [][KeysOf(fetch_entries(gist)) \subseteq KeysOf(fetch_entries(gist'))]_vars

\* C6 (redemption recorded once): no step changes the redeemed_by of a key from
\* one principal to another.  Stated as the claim states it; the code violates it.
RedeemedByWrittenOnce ==
  [][\A k \in Keys :
       \A a \in RedeemersOf(fetch_entries(gist), k), b \in RedeemersOf(fetch_entries(gist'), k) :
         a = b]_vars

RedeemThenRedeem ==
  [][\A i \in Interactions, u \in Users, k \in Keys :
       (successes[k] > 0 /\ redeem(i, u, k, TRUE))
         => (Returns(i) /\ response' = "already_redeemed" /\ gist' = gist)]_vars

\* C9 (unknown key vs. already redeemed): a redeem that has fetched the document
\* answers "invalid key" exactly when the key is absent from it, and "already
\* redeemed" exactly when the document shows the key as redeemed.
InvalidVsAlreadyRedeemed ==
  [][\A i \in Interactions, u \in Users, k \in Keys :
       redeem(i, u, k, TRUE) =>
         LET es == fetch_entries(gist) IN
         /\ ~HasKey(es, k) <=> (Returns(i) /\ response' = "invalid_key")
         /\ IsRedeemed(es, k) <=> (Returns(i) /\ response' = "already_redeemed")]_vars

\* C9 witness: a redeem was answered "already redeemed" while the document holds
\* a redeemed key and lacks another key.
AnsweredAlreadyRedeemed ==
  /\ response = "already_redeemed"
  /\ \E k \in Keys : IsRedeemed(Doc, k)
  /\ \E k \in Keys : ~HasKey(Doc, k)

\* C10 (no partial writes): a handler whose push fails leaves the document as
\* it is in each of its steps (generate_button has one step up to the push,
\* redeem a reading step and the step that pushes) and reports the failure.
NoPartialWrite ==
  [][\A i \in Interactions :
       /\ \A u \in Users, role_id \in PanelRoles, k \in Keys :
            (is_admin(u) /\ generate_button(i, u, role_id, k, TRUE, FALSE))
              => (gist' = gist /\ Returns(i) /\ response' = "error_updating")
       /\ \A u \in Users, k \in Keys, fetchOk \in BOOLEAN :
            redeem(i, u, k, fetchOk) => gist' = gist
       /\ \A now \in Times :
            redeem_assign(i, now, TRUE, FALSE)
              => (gist' = gist /\ Returns(i) /\ response' = "assigned_not_recorded")]_vars

\* C10 witness: a push has failed after a successful grant and the document
\* shows no redemption.
PushFailedDocumentUntouched ==
  /\ pushFailed
  /\ response = "assigned_not_recorded"
  /\ \E k \in Keys : grants[k] > 0
  /\ \A k \in Keys : ~IsRedeemed(Doc, k)

\* C11 (delivery failure is not rolled back): the step of generate_button that
\* pushes leaves the new key as the last record of the document, unredeemed,
\* and the step that follows a failed DM writes nothing.
DeliveryFailureNotRolledBack ==
  [][\A i \in Interactions :
       /\ \A u \in Users, role_id \in PanelRoles, k \in Keys :
            (is_admin(u) /\ generate_button(i, u, role_id, k, TRUE, TRUE)) =>
              LET es == fetch_entries(gist') IN
              es # <<>> /\ es[Len(es)] = Entry(k, role_id, None, None)
       /\ (pc[i] = "generate_await_dm" /\ Returns(i)
             /\ response' \in {"dm_forbidden", "dm_failed"}) => gist' = gist]_vars

\* C11 witness: the DM of a license has failed and the document holds an issued
\* key, unredeemed, as its last record.
DeliveryFailedKeyStored ==
  /\ response \in {"dm_forbidden", "dm_failed"}
  /\ \E i \in Interactions : pc[i] = "done"
  /\ Doc # <<>>
  /\ Doc[Len(Doc)].key \in issued
  /\ Doc[Len(Doc)].redeemed_by = None
  /\ Len(Doc) = 1

\* C12 (redeemed_at is present iff redeemed_by is present): every record of the
\* stored document has both redeemed_by and redeemed_at, or neither.
RedeemedAtIffRedeemedBy ==
  LET es == Doc IN
  \A j \in 1..Len(es) : (es[j].redeemed_by = None) <=> (es[j].redeemed_at = None)

\* C12 witness: a redeem has succeeded and the document holds a record with both
\* fields next to a record with neither.
RedeemedAndUnredeemedRecords ==
  /\ response = "redeemed"
  /\ \E j \in 1..Len(Doc) : Doc[j].redeemed_by # None /\ Doc[j].redeemed_at # None
  /\ \E j \in 1..Len(Doc) : Doc[j].redeemed_by = None /\ Doc[j].redeemed_at = None

\* C15 (every push writes the latest state): when a redeem replaces the
\* document, the list it fetched is still what the document holds, i.e. nobody
\* has written the document since its fetch.  (generate_button fetches and
\* pushes in one step.)  Stated as the claim states it; the code violates it.
LatestStatePush ==
  [][\A i \in Interactions :
       (pc[i] = "redeem_await_add_roles" /\ Returns(i) /\ response' = "redeemed")
         => entries[i] = fetch_entries(gist)]_vars

\* C16 (a key buys at most one role grant): for every key, at most one
\* add_roles call made for it has succeeded.  Stated as the claim states it;
\* the code violates it.
AtMostOneGrantPerKey == \A k \in Keys : grants[k] <= 1

\* C17 (only a succeeding redeem writes): the reading step of a redeem, the
\* step of any handler that answers with a fetch error, "invalid key", "already
\* redeemed", "role not found", "failed to assign role" or "not authorized",
\* and every step of listkeys leave the document and the recorded grants as
\* they are.
OnlySucceedingRedeemWrites ==
  [][\A i \in Interactions :
       /\ (pc[i] = "idle" /\ pc'[i] = "redeem_await_add_roles")
            => (gist' = gist /\ grants' = grants)
       /\ (Returns(i) /\ response' \in {"error_fetching", "invalid_key", "already_redeemed",
                                        "role_not_found", "assign_failed", "not_authorized"})
            => (gist' = gist /\ grants' = grants)
       /\ ((pc[i] = "idle" /\ pc'[i] = "listkeys_await_dm")
             \/ (pc[i] = "listkeys_await_dm" /\ Returns(i)))
            => (gist' = gist /\ grants' = grants)]_vars

\* C17 witness: a redeem was refused for a role the guild no longer has, no
\* grant is recorded and the key is still unredeemed in the document.
RefusedRedeemLeftDocument ==
  /\ response = "role_not_found"
  /\ \A k \in Keys : grants[k] = 0
  /\ LET es == Doc IN \E j \in 1..Len(es) : es[j].role_id \notin GuildRoles /\ es[j].redeemed_by = None

\* C18 (issuance is atomic): a step taken while no redeem is suspended between
\* its fetch and its push keeps every issued key in the document; so overlapping
\* generate clicks, with no redeem in flight, leave all their keys in the
\* document.
IssuanceAtomic ==
  [][((\A j \in Interactions : pc[j] # "redeem_await_add_roles")
        /\ issued \subseteq KeysOf(fetch_entries(gist)))
       => issued' \subseteq KeysOf(fetch_entries(gist'))]_vars

\* C18 witness: two generate clicks overlap (both handlers wait for their DM),
\* no redeem has run, and the document, empty at first, holds both keys.
OverlappingClicksBothStored ==
  /\ \E i, j \in Interactions :
       i # j /\ pc[i] = "generate_await_dm" /\ pc[j] = "generate_await_dm"
  /\ pc[MaxOps] = "idle"
  /\ issued = Keys
  /\ LET es == Doc IN Len(es) = 2 /\ KeysOf(es) = Keys

\* C19 (a successful write changes only its target): read back, the document
\* an issuance has written is the fetched list with the new unredeemed record
\* appended; the document a redemption has written is the list it fetched with
\* redeemed_by and redeemed_at of the target record set and nothing else
\* changed.  (Reading back is parsing what was serialized.)
WriteChangesOnlyTarget ==
  [][\A i \in Interactions :
       /\ \A u \in Users, role_id \in PanelRoles, k \in Keys :
            (is_admin(u) /\ generate_button(i, u, role_id, k, TRUE, TRUE)) =>
              fetch_entries(gist') = Append(fetch_entries(gist), Entry(k, role_id, None, None))
       /\ \A now \in Times :
            (pc[i] = "redeem_await_add_roles" /\ redeem_assign(i, now, TRUE, TRUE)) =>
              LET old == entries[i]
                  new == fetch_entries(gist')
              IN /\ Len(new) = Len(old)
                 /\ \A j \in 1..Len(old) : j # e[i] => new[j] = old[j]
                 /\ new[e[i]] = Entry(old[e[i]].key, old[e[i]].role_id,
                                       PyStr(user[i]), IsoFormat(now))]_vars

\* C19 witness: a redemption has been written over a list of more than one
\* record: the document shows one key redeemed and another one untouched.
RedemptionWrittenAmongOthers ==
  /\ response = "redeemed"
  /\ \E k \in Keys : successes[k] = 1
  /\ LET es == Doc IN
       /\ Len(es) = 3
       /\ \E j \in 1..3 : es[j].redeemed_by # None
       /\ \E j \in 1..3 : es[j].redeemed_by = None

\* C20 (every invocation answers exactly once): a handler that has returned
\* has sent one message with interaction.response.send_message, a handler that
\* has not returned has sent none, and every handler that was started returns.
EveryInvocationAnswersOnce ==
  /\ [](\A i \in Interactions : responses[i] = IF pc[i] = "done" THEN 1 ELSE 0)
  /\ \A i \in Interactions : (pc[i] # "idle") ~> (pc[i] = "done")

\* C20 witness: handlers of all three kinds have returned on their last path
\* (after the DM, after the push of redeem), each with one answer.
AllAnsweredOnce ==
  /\ \A i \in Interactions : pc[i] = "done" /\ responses[i] = 1
  /\ response = "list_sent"
  /\ issued # {}
  /\ \E k \in Keys : successes[k] = 1

\* What a line of keys.txt is, said without the loop of fetch_entries: the
\* line without the blanks around it, its commas, its fields.
Trimmed(s) ==
  LET keep == {p \in 1..Len(s) : s[p] \notin Whitespace} IN
  IF keep = {} THEN <<>>
  ELSE SubSeq(s, CHOOSE p \in keep : \A q \in keep : p <= q,
                 CHOOSE p \in keep : \A q \in keep : q <= p)
\* The position of the n-th comma of s: 0 for n = 0, past the end when s has
\* fewer commas.
NthComma(s, n) ==
  LET cs == {p \in 1..Len(s) : s[p] = ","} IN
  IF n = 0 THEN 0
  ELSE IF Cardinality(cs) < n THEN Len(s) + 1
  ELSE CHOOSE p \in cs : Cardinality({q \in cs : q < p}) = n - 1
\* The n-th of the four fields of s; the fourth one runs to the end of the line.
Field(s, n) ==
  IF NthComma(s, n - 1) > Len(s) THEN <<>>
  ELSE SubSeq(s, NthComma(s, n - 1) + 1, IF n = 4 THEN Len(s) ELSE NthComma(s, n) - 1)
IsNumber(s) == s # <<>> /\ \A p \in 1..Len(s) : s[p] \in DigitSet
\* A line is well formed when it is not blank, is no comment and its second
\* field is a number.
WellFormedLine(raw) ==
  LET s == Trimmed(raw) IN
  s # <<>> /\ s[1] # "#" /\ IsNumber(Trimmed(Field(s, 2)))
RecordOf(raw) ==
  LET s == Trimmed(raw) IN
  Entry(Field(s, 1), DigitsValue(Trimmed(Field(s, 2))), OrNone(Field(s, 3)), OrNone(Field(s, 4)))

\* C14 (loading tolerates malformed lines): whatever lines the document has,
\* fetch_entries returns the records of its well-formed lines, all of them and
\* in document order, and nothing for the other lines.
LoadSkipsMalformedLines ==
  loaded.ran =>
    LET good == SelectSeq(lines, WellFormedLine) IN
    loaded.entries = [j \in 1..Len(good) |-> RecordOf(good[j])]

\* C14 witness: a document of three lines whose second line has a role that is
\* no number has been loaded, and the records of the two lines around it were
\* returned.
LoadedAroundMalformedLine ==
  /\ loaded.ran
  /\ Len(lines) = 3
  /\ WellFormedLine(lines[1]) /\ WellFormedLine(lines[3])
  /\ lines[2] = << "A", ",", "x", ",", "," >>
  /\ Len(loaded.entries) = 2

\* C13 (canonical signing round trip): the license as issued verifies under the
\* secret it was signed with, and a license of which one character of the
\* payload's values or of the signature was changed does not.
SigningRoundTrip ==
  license # NoLicense => (Verify(license.file, secret) <=> ~license.tampered)

\* C13 witness: a license signed with a secret that is not empty has been
\* changed in its payload (the file still parses) and is refused.
TamperedLicenseRefused ==
  /\ license.tampered
  /\ secret # <<>>
  /\ Len(JsonStrings(license.file)) = 7
  /\ JsonStrings(license.file)[5] = << "T", "0" >>
  /\ ~Verify(license.file, secret)

====
